---------------------------- MODULE Spec2Model ----------------------------
(***************************************************************************)
(* Model of pymatgen/analysis/chemenv/connectivity/connected_components.py *)
(* One ConnectedComponent: its periodic multigraph, its cached periodicity *)
(* vectors, and the operations on it.                                      *)
(*                                                                         *)
(* Nodes are 1..nnodes; the isite of node n is n (pairwise distinct).      *)
(* An edge is a record [u, v, key, start, end, delta] with u <= v, and the *)
(* graph's edges are kept in the order networkx iterates them (node by     *)
(* node, neighbour by neighbour, key by key), nodes taken in index order.  *)
(*                                                                         *)
(* twin is a second ConnectedComponent built from the graph object of the  *)
(* first: same_graph tells whether its _connected_subgraph is that very    *)
(* object, so that a change through one name is a change through the other.*)
(***************************************************************************)
EXTENDS Integers, Sequences, FiniteSets

VARIABLES nnodes, edges, periodicity_vectors, from_centered, last, twin

vars == <<nnodes, edges, periodicity_vectors, from_centered, last, twin>>

\* ------------------------------------------------------------------ bounds
MaxNodes == 3
\* the node bound of the specifications whose cases need no third node
MaxNodesSmall == 2
MaxEdges == 3
\* the edges of the graphs centered one level at a time
MaxEdgesSteps == 2
MaxMult == 3
\* the longest list of links given to the constructor
MaxLinks == 2

\* the lattice translations the caller may put on an edge
Deltas == {<<0, 0, 0>>, <<1, 0, 0>>, <<0, 1, 0>>, <<0, 0, 1>>}

\* ----------------------------------------------------------------- vectors
Zero == <<0, 0, 0>>

VAdd(a, b) == <<a[1] + b[1], a[2] + b[2], a[3] + b[3]>>

VNeg(a) == <<0 - a[1], 0 - a[2], 0 - a[3]>>

VSub(a, b) == VAdd(a, VNeg(b))

Cross(a, b) == <<a[2] * b[3] - a[3] * b[2],
                 a[3] * b[1] - a[1] * b[3],
                 a[1] * b[2] - a[2] * b[1]>>

Det(a, b, c) == a[1] * Cross(b, c)[1] + a[2] * Cross(b, c)[2] + a[3] * Cross(b, c)[3]

Range(s) == {s[i] : i \in 1..Len(s)}

\* sequence concatenation of a sequence of sequences
RECURSIVE Flatten(_)
Flatten(ss) == IF ss = <<>> THEN <<>> ELSE Head(ss) \o Flatten(Tail(ss))

\* the elements of a finite set of integers in increasing order
RECURSIVE SortedSeq(_)
SortedSeq(S) ==
    IF S = {} THEN <<>>
    ELSE LET m == CHOOSE x \in S : \A y \in S : x <= y
         IN <<m>> \o SortedSeq(S \ {m})

\* ------------------------------------------- integer-vector reduction
\* whether v enlarges the independent list acc
IsIndependentOf(acc, v) ==
    /\ v # Zero
    /\ \/ Len(acc) = 0
       \/ Len(acc) = 1 /\ Cross(acc[1], v) # Zero
       \/ Len(acc) = 2 /\ Det(acc[1], acc[2], v) # 0

RECURSIVE ReduceInto(_, _)
ReduceInto(vs, acc) ==
    IF vs = <<>> \/ Len(acc) = 3 THEN acc
    ELSE ReduceInto(Tail(vs),
                    IF IsIndependentOf(acc, Head(vs)) THEN Append(acc, Head(vs)) ELSE acc)

get_linearly_independent_vectors(vectors_list) == ReduceInto(vectors_list, <<>>)

\* ------------------------------------------------------------ multigraph
\* self._connected_subgraph[n1][n2].items(): the parallel edges joining n1 and
\* n2, key by key
EdgesBetween(E, n1, n2) ==
    SelectSeq(E, LAMBDA e : (e.u = n1 /\ e.v = n2) \/ (e.u = n2 /\ e.v = n1))

\* nx.Graph(self._connected_subgraph)[n]: the neighbours of n in the simple
\* view (n itself when it carries a self-loop)
Adj(E, N, n) == SortedSeq({m \in 1..N : EdgesBetween(E, n, m) # <<>>})

ValueError == <<"ValueError">>

\* variant: the delta is returned as stored, in either order
get_delta_Unsigned(node1, node2, edge_data) ==
    IF node1 = edge_data.start /\ node2 = edge_data.end THEN edge_data.delta
    ELSE IF node2 = edge_data.start /\ node1 = edge_data.end THEN edge_data.delta
    ELSE ValueError

get_delta(node1, node2, edge_data) ==
    IF node1 = edge_data.start /\ node2 = edge_data.end THEN edge_data.delta
    ELSE IF node2 = edge_data.start /\ node1 = edge_data.end THEN VNeg(edge_data.delta)
    ELSE ValueError

\* graph.add_edge(a, b, start=.., end=.., delta=..): the new edge takes the
\* first free key of its node pair
add_edge(E, a, b, start, end, delta) ==
    LET lo == IF a <= b THEN a ELSE b
        hi == IF a <= b THEN b ELSE a
        e  == [u |-> lo, v |-> hi, key |-> Len(EdgesBetween(E, a, b)),
               start |-> start, end |-> end, delta |-> delta]
        before == SelectSeq(E, LAMBDA x : x.u < lo \/ (x.u = lo /\ x.v <= hi))
        after  == SelectSeq(E, LAMBDA x : x.u > lo \/ (x.u = lo /\ x.v > hi))
    IN before \o <<e>> \o after

\* ------------------------------------------------ cumulative path deltas
\* variant: only the first of the parallel edges of a hop is followed
HopDeltas_FirstEdgeOnly(es, node1, node2, current) ==
    IF es = <<>> THEN <<>>
    ELSE [i \in 1..Len(current) |-> VAdd(current[i], get_delta(node1, node2, Head(es)))]

\* one hop: every parallel edge from node1 to node2 added to every partial sum
RECURSIVE HopDeltas(_, _, _, _)
HopDeltas(es, node1, node2, current) ==
    IF es = <<>> THEN <<>>
    ELSE [i \in 1..Len(current) |-> VAdd(current[i], get_delta(node1, node2, Head(es)))]
         \o HopDeltas(Tail(es), node1, node2, current)

RECURSIVE WalkDeltas(_, _, _)
WalkDeltas(E, path, current) ==
    IF Len(path) < 2 THEN current
    ELSE WalkDeltas(E, Tail(path),
                    HopDeltas(EdgesBetween(E, path[1], path[2]), path[1], path[2], current))

PathDeltas(E, path) == WalkDeltas(E, path, <<Zero>>)

\* ------------------------------------------------------ all simple paths
\* networkx _all_simple_paths_graph(G, source, target, cutoff) with
\* source = target, depth first in neighbour order
RECURSIVE SimplePathsFrom(_, _, _, _, _)
SimplePathsFrom(E, N, visited, target, cutoff) ==
    LET children == Adj(E, N, visited[Len(visited)])
    IN IF Len(visited) < cutoff
       THEN Flatten([i \in 1..Len(children) |->
                IF children[i] = target THEN <<Append(visited, target)>>
                ELSE IF children[i] \notin Range(visited)
                     THEN SimplePathsFrom(E, N, Append(visited, children[i]), target, cutoff)
                     ELSE <<>>])
       ELSE IF target \in Range(children) THEN <<Append(visited, target)>> ELSE <<>>

\* variant: the cutoff networkx takes by default, one less than the node count
all_simple_paths_ShortCutoff(E, N, source, target, cutoff) ==
    IF cutoff - 1 < 1 THEN <<>> ELSE SimplePathsFrom(E, N, <<source>>, target, cutoff - 1)

all_simple_paths(E, N, source, target, cutoff) ==
    IF cutoff < 1 THEN <<>> ELSE SimplePathsFrom(E, N, <<source>>, target, cutoff)

\* ------------------------------------------- all-simple-paths algorithm
\* the loop over the paths of one test node: paths already seen (by isite
\* sequence) are skipped, the vectors are reduced after every path, and the
\* loop breaks at 3 independent vectors
RECURSIVE PathLoop(_, _, _, _)
PathLoop(E, todo, paths, this_node_cell_img_vectors) ==
    IF todo = <<>> THEN this_node_cell_img_vectors
    ELSE IF Head(todo) \in paths
         THEN PathLoop(E, Tail(todo), paths, this_node_cell_img_vectors)
         ELSE LET reduced == get_linearly_independent_vectors(
                                 this_node_cell_img_vectors \o PathDeltas(E, Head(todo)))
              IN IF Len(reduced) = 3 THEN reduced
                 ELSE PathLoop(E, Tail(todo), paths \cup {Head(todo)}, reduced)

SelfLoopDeltas(E, n) ==
    LET loops == EdgesBetween(E, n, n) IN [i \in 1..Len(loops) |-> loops[i].delta]

\* mutant: the vectors of a test node are never reduced
TestNodeVectors_Unreduced(E, N, test_node) ==
    LET ps == all_simple_paths(E, N, test_node, test_node, N)
    IN SelfLoopDeltas(E, test_node) \o Flatten([i \in 1..Len(ps) |-> PathDeltas(E, ps[i])])

TestNodeVectors(E, N, test_node) ==
    PathLoop(E, all_simple_paths(E, N, test_node, test_node, N), {},
             SelfLoopDeltas(E, test_node))

\* the loop over the test nodes, broken at the first node with 3 vectors
RECURSIVE TestNodeLoop(_, _, _, _)
TestNodeLoop(E, N, test_node, all_nodes) ==
    IF test_node > N THEN all_nodes
    ELSE LET this == TestNodeVectors(E, N, test_node)
         IN IF Len(this) = 3 THEN Append(all_nodes, this)
            ELSE TestNodeLoop(E, N, test_node + 1, Append(all_nodes, this))

\* variant: a later per-node list of the same length replaces the one held
RECURSIVE SelectLargest_Last(_, _)
SelectLargest_Last(all_nodes, best) ==
    IF all_nodes = <<>> THEN best
    ELSE SelectLargest_Last(Tail(all_nodes),
                            IF Len(Head(all_nodes)) >= Len(best) THEN Head(all_nodes) ELSE best)

\* the final selection: the first per-node list strictly longer than the
\* ones before it
RECURSIVE SelectLargest(_, _)
SelectLargest(all_nodes, best) ==
    IF all_nodes = <<>> \/ Len(best) = 3 THEN best
    ELSE SelectLargest(Tail(all_nodes),
                       IF Len(Head(all_nodes)) > Len(best) THEN Head(all_nodes) ELSE best)

compute_periodicity_all_simple_paths_algorithm(E, N) ==
    SelectLargest(TestNodeLoop(E, N, 1, <<>>), <<>>)

\* ----------------------------------------------------------- cycle basis
\* networkx cycle_basis(G) on the simple view: a depth-first spanning tree
\* per connected component, one cycle per non-tree edge, [z] per self-loop.
\* The state of the walk is [stack, pred, used, inused, cycles]; pred[n] = 0
\* and n \notin inused stand for "n not yet a key of pred / used".
RECURSIVE ClimbCycle(_, _, _, _)
ClimbCycle(pred, pn, p, cycle) ==
    IF p \in pn THEN Append(cycle, p)
    ELSE ClimbCycle(pred, pn, pred[p], Append(cycle, p))

\* variant: a self-loop gives no cycle
RECURSIVE NbrLoop_NoSelfLoops(_, _, _, _)
NbrLoop_NoSelfLoops(nbrs, z, zused, st) ==
    IF nbrs = <<>> THEN st
    ELSE LET nbr == Head(nbrs)
         IN NbrLoop_NoSelfLoops(Tail(nbrs), z, zused,
                IF nbr \notin st.inused
                THEN [st EXCEPT !.pred[nbr] = z, !.stack = Append(@, nbr),
                                !.used[nbr] = {z}, !.inused = @ \cup {nbr}]
                ELSE IF nbr = z
                THEN st
                ELSE IF nbr \notin zused
                THEN [st EXCEPT !.cycles = Append(@, ClimbCycle(st.pred, st.used[nbr],
                                                                st.pred[z], <<nbr, z>>)),
                                !.used[nbr] = @ \cup {z}]
                ELSE st)

RECURSIVE NbrLoop(_, _, _, _)
NbrLoop(nbrs, z, zused, st) ==
    IF nbrs = <<>> THEN st
    ELSE LET nbr == Head(nbrs)
         IN NbrLoop(Tail(nbrs), z, zused,
                IF nbr \notin st.inused
                THEN [st EXCEPT !.pred[nbr] = z, !.stack = Append(@, nbr),
                                !.used[nbr] = {z}, !.inused = @ \cup {nbr}]
                ELSE IF nbr = z
                THEN [st EXCEPT !.cycles = Append(@, <<z>>)]
                ELSE IF nbr \notin zused
                THEN [st EXCEPT !.cycles = Append(@, ClimbCycle(st.pred, st.used[nbr],
                                                                st.pred[z], <<nbr, z>>)),
                                !.used[nbr] = @ \cup {z}]
                ELSE st)

RECURSIVE StackLoop(_, _, _)
StackLoop(E, N, st) ==
    IF st.stack = <<>> THEN st
    ELSE LET z == st.stack[Len(st.stack)]
         IN StackLoop(E, N,
                NbrLoop(Adj(E, N, z), z, st.used[z],
                        [st EXCEPT !.stack = SubSeq(@, 1, Len(@) - 1)]))

RECURSIVE ComponentLoop(_, _, _, _)
ComponentLoop(E, N, gnodes, cycles) ==
    IF gnodes = {} THEN cycles
    ELSE LET root == CHOOSE x \in gnodes : \A y \in gnodes : x <= y
             st == StackLoop(E, N,
                       [stack |-> <<root>>,
                        pred |-> [n \in 1..N |-> IF n = root THEN root ELSE 0],
                        used |-> [n \in 1..N |-> {}],
                        inused |-> {root},
                        cycles |-> cycles])
         IN ComponentLoop(E, N, gnodes \ {n \in 1..N : st.pred[n] # 0}, st.cycles)

cycle_basis(E, N) == ComponentLoop(E, N, 1..N, <<>>)

\* --------------------------------------------------- cycle-basis algorithm
\* the result of either pass: the vectors held, and whether 3 were reached
\* (the early return)
RECURSIVE CycleLoop(_, _, _)
CycleLoop(E, cycles, all_deltas) ==
    IF cycles = <<>> THEN [done |-> FALSE, v |-> all_deltas]
    ELSE LET cyc == Head(cycles)
             reduced == get_linearly_independent_vectors(
                            all_deltas \o PathDeltas(E, Append(cyc, cyc[1])))
         IN IF Len(reduced) = 3 THEN [done |-> TRUE, v |-> reduced]
            ELSE CycleLoop(E, Tail(cycles), reduced)

\* itertools.combinations(keys, 2) on the parallel edges es of (n1, n2): for
\* each pair the delta of the first from n1 to n2 plus that of the second back
PairDeltas(es, n1, n2) ==
    Flatten([i \in 1..Len(es) |->
        [k \in 1..(Len(es) - i) |->
            VAdd(get_delta(n1, n2, es[i]), get_delta(n2, n1, es[i + k]))]])

\* my_simple_graph.edges(): the joined node pairs, node by node
SimpleEdges(E, N) ==
    Flatten([n1 \in 1..N |->
        LET nb == SelectSeq(Adj(E, N, n1), LAMBDA m : m >= n1)
        IN [i \in 1..Len(nb) |-> <<n1, nb[i]>>]])

\* variant: the pass over the parallel edges is left out
ParallelLoop_Skipped(E, pairs, all_deltas) == all_deltas

RECURSIVE ParallelLoop(_, _, _)
ParallelLoop(E, pairs, all_deltas) ==
    IF pairs = <<>> THEN all_deltas
    ELSE LET n1 == Head(pairs)[1]
             n2 == Head(pairs)[2]
             es == EdgesBetween(E, n1, n2)
         IN IF n1 = n2 \/ Len(es) = 1 THEN ParallelLoop(E, Tail(pairs), all_deltas)
            ELSE LET reduced == get_linearly_independent_vectors(
                                    all_deltas \o PairDeltas(es, n1, n2))
                 IN IF Len(reduced) = 3 THEN reduced
                    ELSE ParallelLoop(E, Tail(pairs), reduced)

compute_periodicity_cycle_basis(E, N) ==
    LET first == CycleLoop(E, cycle_basis(E, N), <<>>)
    IN IF first.done THEN first.v
       ELSE ParallelLoop(E, SimpleEdges(E, N), first.v)

\* --------------------------------------------------------------- supergraph
\* supergraph.add_edge(start, end, key=key, attr_dict=new_data): both end
\* nodes are created if missing; an edge already stored for the same node
\* pair and key is overwritten
SuperAddEdge(G, op) ==
    LET lo == IF op.start <= op.end THEN op.start ELSE op.end
        hi == IF op.start <= op.end THEN op.end ELSE op.start
    IN [nodes |-> G.nodes \cup {op.start, op.end},
        edges |-> {x \in G.edges : ~(x.a = lo /\ x.b = hi /\ x.key = op.key)}
                  \cup {[a |-> lo, b |-> hi, key |-> op.key,
                         start |-> op.start, end |-> op.end, delta |-> op.delta]}]

RECURSIVE SuperAddAll(_, _)
SuperAddAll(G, ops) ==
    IF ops = <<>> THEN G ELSE SuperAddAll(SuperAddEdge(G, Head(ops)), Tail(ops))

\* the edges whose delta is the periodicity vector p or its opposite; the
\* latter are kept with their delta negated
ConnectingEdges(E, p) ==
    LET sel == SelectSeq(E, LAMBDA e : e.delta = p \/ e.delta = VNeg(p))
    IN [i \in 1..Len(sel) |->
           IF sel[i].delta = p THEN sel[i]
           ELSE [sel[i] EXCEPT !.delta = VNeg(@), !.start = sel[i].end, !.end = sel[i].start]]

OtherEdges(E, p) == SelectSeq(E, LAMBDA e : e.delta # p /\ e.delta # VNeg(p))

\* mutant: the connecting edges of the last copy are not wrapped back to copy 0
CopyEdges_NoWrap(imult, mult, N, other_edges, connecting_edges) ==
    [i \in 1..Len(other_edges) |->
        [start |-> imult * N + (other_edges[i].u - 1),
         end |-> imult * N + (other_edges[i].v - 1),
         key |-> other_edges[i].key, delta |-> other_edges[i].delta]]
    \o
    IF imult < mult - 1
    THEN [i \in 1..Len(connecting_edges) |->
             [start |-> imult * N + (connecting_edges[i].u - 1),
              end |-> (((imult + 1) * N) + (connecting_edges[i].v - 1)) % (N * mult),
              key |-> connecting_edges[i].key, delta |-> Zero]]
    ELSE <<>>

\* mutant: a connecting edge ends on the image of its own first node
CopyEdges_WrongEnd(imult, mult, N, other_edges, connecting_edges) ==
    [i \in 1..Len(other_edges) |->
        [start |-> imult * N + (other_edges[i].u - 1),
         end |-> imult * N + (other_edges[i].v - 1),
         key |-> other_edges[i].key, delta |-> other_edges[i].delta]]
    \o
    [i \in 1..Len(connecting_edges) |->
        IF imult < mult - 1
        THEN [start |-> imult * N + (connecting_edges[i].u - 1),
              end |-> (((imult + 1) * N) + (connecting_edges[i].u - 1)) % (N * mult),
              key |-> connecting_edges[i].key, delta |-> Zero]
        ELSE [start |-> imult * N + (connecting_edges[i].u - 1),
              end |-> connecting_edges[i].u - 1,
              key |-> connecting_edges[i].key, delta |-> connecting_edges[i].delta]]

\* the edges added for copy imult of mult; indices_nodes[n] = n - 1
CopyEdges(imult, mult, N, other_edges, connecting_edges) ==
    [i \in 1..Len(other_edges) |->
        [start |-> imult * N + (other_edges[i].u - 1),
         end |-> imult * N + (other_edges[i].v - 1),
         key |-> other_edges[i].key, delta |-> other_edges[i].delta]]
    \o
    [i \in 1..Len(connecting_edges) |->
        IF imult < mult - 1
        THEN [start |-> imult * N + (connecting_edges[i].u - 1),
              end |-> (((imult + 1) * N) + (connecting_edges[i].v - 1)) % (N * mult),
              key |-> connecting_edges[i].key, delta |-> Zero]
        ELSE [start |-> imult * N + (connecting_edges[i].u - 1),
              end |-> connecting_edges[i].v - 1,
              key |-> connecting_edges[i].key, delta |-> connecting_edges[i].delta]]

EmptyGraph == [nodes |-> {}, edges |-> {}]

\* multiplicity is [isint |-> TRUE, val |-> <<m>>] for the integer m and
\* [isint |-> FALSE, val |-> s] for the sequence s
\* variant: any multiplicity is expanded along its first element
IsSingleAxis_Always(multiplicity) == TRUE

\* isinstance(multiplicity, int) or len(multiplicity) == 1
IsSingleAxis(multiplicity) == multiplicity.isint \/ Len(multiplicity.val) = 1

make_supergraph(E, N, multiplicity, pvs) ==
    IF IsSingleAxis(multiplicity)
    THEN IF E # <<>> /\ pvs.isNone
         THEN [raised |-> "TypeError", ret |-> <<>>]
         ELSE IF E # <<>> /\ pvs.v = <<>>
         THEN [raised |-> "IndexError", ret |-> <<>>]
         ELSE LET mult == multiplicity.val[1]
                  p == IF E = <<>> THEN Zero ELSE pvs.v[1]
                  connecting_edges == ConnectingEdges(E, p)
                  other_edges == OtherEdges(E, p)
                  G == SuperAddAll(EmptyGraph,
                           Flatten([c \in 1..mult |->
                               CopyEdges(c - 1, mult, N, other_edges, connecting_edges)]))
              IN [raised |-> "",
                  ret |-> [nodes |-> G.nodes, edges |-> G.edges,
                           prompted |-> \E i \in 1..Len(other_edges) :
                                            other_edges[i].delta # Zero]]
    ELSE [raised |-> "NotImplementedError", ret |-> <<>>]

\* ---------------------------------------------------------- elastic centering
\* bfs_tree(G, source): the successors of every node, in discovery order
RECURSIVE BfsTree(_, _, _, _, _)
BfsTree(E, N, queue, visited, tree) ==
    IF queue = <<>> THEN tree
    ELSE LET parent == Head(queue)
             new == SelectSeq(Adj(E, N, parent), LAMBDA c : c \notin visited)
         IN BfsTree(E, N, Tail(queue) \o new, visited \cup Range(new),
                    [tree EXCEPT ![parent] = new])

bfs_tree(E, N, source) ==
    BfsTree(E, N, <<source>>, {source}, [n \in 1..N |-> <<>>])

\* variant: the delta is read as stored, whatever end of the edge the node is
ThisDelta_Unsigned(edata, node) ==
    IF edata.start = node \/ edata.end = node THEN edata.delta ELSE ValueError

\* the delta of an edge joining node and its tree neighbour, seen from node
ThisDelta(edata, node) ==
    IF edata.delta = Zero THEN Zero
    ELSE IF edata.start = node /\ edata.end # node THEN edata.delta
    ELSE IF edata.end = node THEN VNeg(edata.delta)
    ELSE ValueError

\* variant: the correction is added whatever end of the edge the neighbour is
ShiftEdge_AlwaysAdd(edata, node_neighbor, myddelta) ==
    IF (edata.u = node_neighbor) # (edata.v = node_neighbor)
    THEN [edata EXCEPT !.delta = VAdd(@, myddelta)]
    ELSE edata

\* variant: the self-loops of the neighbour are corrected too
ShiftEdge_SelfLoopsToo(edata, node_neighbor, myddelta) ==
    IF edata.u = node_neighbor \/ edata.v = node_neighbor
    THEN IF edata.start = node_neighbor
         THEN [edata EXCEPT !.delta = VAdd(@, myddelta)]
         ELSE [edata EXCEPT !.delta = VSub(@, myddelta)]
    ELSE edata

\* the correction applied to one edge of the neighbour brought back
ShiftEdge(edata, node_neighbor, myddelta) ==
    IF (edata.u = node_neighbor) # (edata.v = node_neighbor)
    THEN IF edata.start = node_neighbor /\ edata.end # node_neighbor
         THEN [edata EXCEPT !.delta = VAdd(@, myddelta)]
         ELSE IF edata.end = node_neighbor
         THEN [edata EXCEPT !.delta = VSub(@, myddelta)]
         ELSE [edata EXCEPT !.delta = ValueError]
    ELSE edata

\* variant: several zero deltas between a node and its neighbour are let through
TestNeighbor_NoZeroCheck(st, node, node_neighbor) ==
    LET between == EdgesBetween(st.g, node, node_neighbor)
        ddeltas == [i \in 1..Len(between) |-> ThisDelta(between[i], node)]
        nzero == Cardinality({i \in 1..Len(ddeltas) : ddeltas[i] = Zero})
        shifted == [i \in 1..Len(st.g) |-> ShiftEdge(st.g[i], node_neighbor, ddeltas[1])]
    IN IF \E i \in 1..Len(ddeltas) : ddeltas[i] = ValueError
       THEN [st EXCEPT !.raised = "ValueError"]
       ELSE IF nzero >= 1 THEN st
       ELSE IF \E i \in 1..Len(shifted) : shifted[i].delta = ValueError
       THEN [st EXCEPT !.raised = "ValueError"]
       ELSE [st EXCEPT !.g = shifted]

\* one neighbour of one node: st is [raised, g], g the working copy
TestNeighbor(st, node, node_neighbor) ==
    LET between == EdgesBetween(st.g, node, node_neighbor)
        ddeltas == [i \in 1..Len(between) |-> ThisDelta(between[i], node)]
        nzero == Cardinality({i \in 1..Len(ddeltas) : ddeltas[i] = Zero})
        shifted == [i \in 1..Len(st.g) |-> ShiftEdge(st.g[i], node_neighbor, ddeltas[1])]
    IN IF \E i \in 1..Len(ddeltas) : ddeltas[i] = ValueError
       THEN [st EXCEPT !.raised = "ValueError"]
       ELSE IF nzero > 1 THEN [st EXCEPT !.raised = "ValueError"]
       ELSE IF nzero = 1 THEN st
       ELSE IF \E i \in 1..Len(shifted) : shifted[i].delta = ValueError
       THEN [st EXCEPT !.raised = "ValueError"]
       ELSE [st EXCEPT !.g = shifted]

RECURSIVE NeighborLoop(_, _, _)
NeighborLoop(st, node, node_neighbors) ==
    IF node_neighbors = <<>> \/ st.raised # "" THEN st
    ELSE NeighborLoop(TestNeighbor(st, node, Head(node_neighbors)), node,
                      Tail(node_neighbors))

RECURSIVE NodeLoop(_, _, _)
NodeLoop(st, tree, current_nodes) ==
    IF current_nodes = <<>> \/ st.raised # "" THEN st
    ELSE NodeLoop(NeighborLoop(st, Head(current_nodes), tree[Head(current_nodes)]),
                  tree, Tail(current_nodes))

RECURSIVE LevelLoop(_, _, _)
LevelLoop(st, tree, current_nodes) ==
    LET after == NodeLoop(st, tree, current_nodes)
        new_current_nodes == Flatten([i \in 1..Len(current_nodes) |-> tree[current_nodes[i]]])
    IN IF after.raised # "" \/ new_current_nodes = <<>> THEN after
       ELSE LevelLoop(after, tree, new_current_nodes)

\* the edges kept in check_centered_connected_subgraph
ZeroDeltaEdges(E) == SelectSeq(E, LAMBDA e : e.delta = Zero)

\* networkx is_connected: a breadth-first search from one node reaches all
RECURSIVE Reached(_, _, _)
Reached(E, N, seen) ==
    LET next == seen \cup {m \in 1..N : \E n \in seen : EdgesBetween(E, n, m) # <<>>}
    IN IF next = seen THEN seen ELSE Reached(E, N, next)

\* mutant: the connectivity check is left out
is_connected_Unchecked(E, N) == TRUE

\* mutant: the checked graph holds only the nodes its edges bring
is_connected_EdgeNodes(E, N) ==
    LET ns == {n \in 1..N : \E i \in 1..Len(E) : E[i].u = n \/ E[i].v = n}
    IN ns # {} /\ Reached(E, N, {CHOOSE n \in ns : \A m \in ns : n <= m}) = ns

is_connected(E, N) == Cardinality(Reached(E, N, {1})) = N

elastic_centered_graph(E, N) ==
    LET start_node == 1
        st == LevelLoop([raised |-> "", g |-> E], bfs_tree(E, N, start_node), <<start_node>>)
    IN IF st.raised # "" THEN [raised |-> st.raised, ret |-> <<>>]
       ELSE IF ~is_connected(ZeroDeltaEdges(st.g), N)
       THEN [raised |-> "RuntimeError", ret |-> <<>>]
       ELSE [raised |-> "", ret |-> st.g]

\* ------------------------------------------------------------- the component
NoVectors == [isNone |-> TRUE, v |-> <<>>]

Cached(v) == [isNone |-> FALSE, v |-> v]

Algorithms == {"all_simple_paths", "cycle_basis"}

\* names compute_periodicity does not know
UnknownAlgorithms == {"", "simple_paths"}

\* variant: an unknown name falls back on the default algorithm
compute_periodicity_DefaultsUnknown(E, N, algorithm) ==
    IF algorithm = "cycle_basis"
    THEN [raised |-> "", v |-> compute_periodicity_cycle_basis(E, N)]
    ELSE [raised |-> "", v |-> compute_periodicity_all_simple_paths_algorithm(E, N)]

\* v: the vectors the algorithm leaves in self._periodicity_vectors
compute_periodicity(E, N, algorithm) ==
    IF algorithm = "all_simple_paths"
    THEN [raised |-> "", v |-> compute_periodicity_all_simple_paths_algorithm(E, N)]
    ELSE IF algorithm = "cycle_basis"
    THEN [raised |-> "", v |-> compute_periodicity_cycle_basis(E, N)]
    ELSE [raised |-> "ValueError", v |-> <<>>]

Properties == {"is_periodic", "is_0d", "is_1d", "is_2d", "is_3d",
               "periodicity_vectors", "periodicity"}

\* mutant: every read computes again
ReadCache_Always(pvs, E, N) ==
    [ran |-> TRUE, pvs |-> Cached(compute_periodicity(E, N, "all_simple_paths").v)]

\* the start of every property: compute_periodicity() if the cache is None
ReadCache(pvs, E, N) ==
    IF pvs.isNone
    THEN [ran |-> TRUE, pvs |-> Cached(compute_periodicity(E, N, "all_simple_paths").v)]
    ELSE [ran |-> FALSE, pvs |-> pvs]

\* variant: the label does not follow the number of vectors
Label_Fixed(n) == "3D"

\* '{:d}D'.format(n)
Label(n) ==
    CASE n = 0 -> "0D" [] n = 1 -> "1D" [] n = 2 -> "2D" [] n = 3 -> "3D" [] OTHER -> "nD"

PropertyValue(property, v) ==
    CASE property = "is_0d" -> Len(v) = 0
      [] property = "is_1d" -> Len(v) = 1
      [] property = "is_2d" -> Len(v) = 2
      [] property = "is_3d" -> Len(v) = 3
      [] property = "is_periodic" -> ~(Len(v) = 0)
      [] property = "periodicity_vectors" -> v
      [] property = "periodicity" -> Label(Len(v))

Multiplicities ==
    {[isint |-> TRUE, val |-> <<m>>] : m \in 1..MaxMult}
    \cup {[isint |-> FALSE, val |-> <<m>>] : m \in 1..MaxMult}
    \cup {[isint |-> FALSE, val |-> <<1, 1>>], [isint |-> FALSE, val |-> <<1, 1, 1>>]}

Idle == [op |-> "init", arg |-> "", ran |-> FALSE, raised |-> "", ret |-> <<>>]

\* ------------------------------------------------------------ construction
\* an argument left at its default
None == [isNone |-> TRUE]

\* variant: every link is added, whatever nodes it names
RECURSIVE LinkLoop_NoNodeCheck(_, _, _, _)
LinkLoop_NoNodeCheck(E, N, links, links_data) ==
    IF links = <<>> THEN [raised |-> "", E |-> E]
    ELSE LinkLoop_NoNodeCheck(add_edge(E, Head(links)[1], Head(links)[2], links_data.start,
                                       links_data.end, links_data.delta),
                              N, Tail(links), links_data)

\* for (env_node1, env_node2) in links: has_node on both, then add_edge with
\* the attributes of links_data
RECURSIVE LinkLoop(_, _, _, _)
LinkLoop(E, N, links, links_data) ==
    IF links = <<>> THEN [raised |-> "", E |-> E]
    ELSE IF Head(links)[1] \notin 1..N \/ Head(links)[2] \notin 1..N
    THEN [raised |-> "ChemenvError", E |-> <<>>]
    ELSE LinkLoop(add_edge(E, Head(links)[1], Head(links)[2], links_data.start,
                           links_data.end, links_data.delta),
                  N, Tail(links), links_data)

\* ConnectedComponent.__init__: environments is [isNone, n] for the nodes 1..n,
\* links [isNone, l] for a list l of node pairs, graph [isNone, N, E]
ConnectedComponent_init(environments, links, links_data, graph) ==
    IF ~graph.isNone THEN [raised |-> "", N |-> graph.N, E |-> graph.E]
    ELSE IF environments.isNone THEN [raised |-> "TypeError", N |-> 0, E |-> <<>>]
    ELSE IF links.isNone THEN [raised |-> "TypeError", N |-> 0, E |-> <<>>]
    ELSE LET r == LinkLoop(<<>>, environments.n, links.l, links_data)
         IN [raised |-> r.raised, N |-> environments.n, E |-> r.E]

as_dict == [module |-> "pymatgen.analysis.chemenv.connectivity.connected_components",
            class |-> "ConnectedComponent"]

\* cls(): every argument at its default
from_dict(d) == ConnectedComponent_init(None, None, None, None)

\* the lists of at most n node pairs over the nodes 1..N
RECURSIVE LinkLists(_, _)
LinkLists(N, n) ==
    IF n = 0 THEN {<<>>}
    ELSE LinkLists(N, n - 1)
         \cup {Append(l, <<a, b>>) : l \in {x \in LinkLists(N, n - 1) : Len(x) = n - 1},
                                     a \in 1..N, b \in 1..N}

\* the attributes given to every link
LinksData == {[start |-> 1, end |-> 2, delta |-> d] : d \in {Zero, <<1, 0, 0>>}}

\* no second component yet
NoTwin == [built |-> FALSE, same_graph |-> FALSE, edges |-> <<>>,
           periodicity_vectors |-> NoVectors]

\* ConnectedComponent(graph=g) for a graph of N nodes without edges yet
Init ==
    /\ nnodes \in 1..MaxNodes
    /\ edges = <<>>
    /\ periodicity_vectors = NoVectors
    /\ from_centered = FALSE
    /\ last = Idle
    /\ twin = NoTwin

\* the caller adds an edge through the graph property; the labels start/end
\* are the isites of the two nodes, in either order
AddEdge ==
    \E a \in 1..nnodes, b \in 1..nnodes, d \in Deltas, fwd \in BOOLEAN :
        /\ Len(edges) < MaxEdges
        /\ a <= b
        /\ (a = b => fwd)
        /\ edges' = add_edge(edges, a, b, IF fwd THEN a ELSE b, IF fwd THEN b ELSE a, d)
        /\ twin' = IF twin.same_graph THEN [twin EXCEPT !.edges = edges'] ELSE twin
        /\ from_centered' = FALSE
        /\ last' = [Idle EXCEPT !.op = "add_edge"]
        /\ UNCHANGED <<nnodes, periodicity_vectors>>

ComputePeriodicity ==
    \E algorithm \in Algorithms \cup UnknownAlgorithms :
        LET r == compute_periodicity(edges, nnodes, algorithm)
        IN /\ periodicity_vectors' = IF r.raised = "" THEN Cached(r.v) ELSE periodicity_vectors
           /\ last' = [Idle EXCEPT !.op = "compute_periodicity", !.arg = algorithm,
                                   !.ran = (r.raised = ""), !.raised = r.raised]
           /\ UNCHANGED <<nnodes, edges, from_centered, twin>>

\* a read of one of the properties
Read ==
    \E property \in Properties :
        LET r == ReadCache(periodicity_vectors, edges, nnodes)
        IN /\ periodicity_vectors' = r.pvs
           /\ last' = [Idle EXCEPT !.op = property, !.ran = r.ran,
                                   !.ret = PropertyValue(property, r.pvs.v)]
           /\ UNCHANGED <<nnodes, edges, from_centered, twin>>

\* ConnectedComponent.make_supergraph(multiplicity)
MakeSupergraph ==
    \E multiplicity \in Multiplicities :
        LET r == make_supergraph(edges, nnodes, multiplicity, periodicity_vectors)
        IN /\ last' = [Idle EXCEPT !.op = "make_supergraph", !.arg = multiplicity,
                                   !.raised = r.raised, !.ret = r.ret]
           /\ UNCHANGED <<nnodes, edges, periodicity_vectors, from_centered, twin>>

\* variant: the corrections are written to the component's own graph
ElasticCenteredGraph_InPlace ==
    LET r == elastic_centered_graph(edges, nnodes)
    IN /\ last' = [Idle EXCEPT !.op = "elastic_centered_graph",
                               !.raised = r.raised, !.ret = r.ret]
       /\ edges' = IF r.raised = "" THEN r.ret ELSE edges
       /\ UNCHANGED <<nnodes, periodicity_vectors, from_centered, twin>>

ElasticCenteredGraph ==
    LET r == elastic_centered_graph(edges, nnodes)
    IN /\ last' = [Idle EXCEPT !.op = "elastic_centered_graph",
                               !.raised = r.raised, !.ret = r.ret]
       /\ UNCHANGED <<nnodes, edges, periodicity_vectors, from_centered, twin>>

\* ConnectedComponent.from_graph(g) on the graph elastic centering returned
FromCentered ==
    /\ last.op = "elastic_centered_graph"
    /\ last.raised = ""
    /\ edges' = last.ret
    /\ periodicity_vectors' = NoVectors
    /\ from_centered' = TRUE
    /\ last' = [Idle EXCEPT !.op = "from_graph"]
    /\ twin' = NoTwin
    /\ UNCHANGED nnodes

\* ConnectedComponent.from_graph(c.graph), or ConnectedComponent(graph=g) with
\* the g the first component was built from: __init__ keeps the object it is
\* given (self._connected_subgraph = graph), and starts its own cache at None
BuildTwin ==
    /\ ~twin.built
    /\ twin' = [built |-> TRUE, same_graph |-> TRUE, edges |-> edges,
                periodicity_vectors |-> NoVectors]
    /\ last' = [Idle EXCEPT !.op = "twin.from_graph"]
    /\ UNCHANGED <<nnodes, edges, periodicity_vectors, from_centered>>

\* an edge added to the graph of the second component
TwinAddEdge ==
    \E a \in 1..nnodes, b \in 1..nnodes, d \in Deltas :
        /\ twin.built
        /\ Len(twin.edges) < MaxEdges
        /\ a <= b
        /\ twin' = [twin EXCEPT !.edges = add_edge(twin.edges, a, b, a, b, d)]
        /\ edges' = IF twin.same_graph THEN twin'.edges ELSE edges
        /\ from_centered' = FALSE
        /\ last' = [Idle EXCEPT !.op = "twin.add_edge"]
        /\ UNCHANGED <<nnodes, periodicity_vectors>>

\* compute_periodicity on the second component
TwinComputePeriodicity ==
    \E algorithm \in Algorithms :
        LET r == compute_periodicity(twin.edges, nnodes, algorithm)
        IN /\ twin.built
           /\ twin' = [twin EXCEPT !.periodicity_vectors = Cached(r.v)]
           /\ last' = [Idle EXCEPT !.op = "twin.compute_periodicity", !.arg = algorithm,
                                   !.ran = TRUE]
           /\ UNCHANGED <<nnodes, edges, periodicity_vectors, from_centered>>

\* ConnectedComponent(environments, links, links_data=..): the new component
\* takes the place of the one followed, unless the constructor raises
Construct ==
    \E n \in 0..MaxNodesSmall, l \in LinkLists(MaxNodes, MaxLinks), links_data \in LinksData :
        LET r == ConnectedComponent_init([isNone |-> FALSE, n |-> n],
                                         [isNone |-> FALSE, l |-> l], links_data, None)
        IN /\ last' = [Idle EXCEPT !.op = "ConnectedComponent",
                                   !.arg = [environments |-> n, links |-> l],
                                   !.raised = r.raised]
           /\ IF r.raised = ""
              THEN /\ nnodes' = r.N
                   /\ edges' = r.E
                   /\ periodicity_vectors' = NoVectors
                   /\ from_centered' = FALSE
                   /\ twin' = NoTwin
              ELSE UNCHANGED <<nnodes, edges, periodicity_vectors, from_centered, twin>>

\* ConnectedComponent.from_dict(c.as_dict())
FromDict ==
    LET r == from_dict(as_dict)
    IN /\ last' = [Idle EXCEPT !.op = "from_dict", !.raised = r.raised]
       /\ IF r.raised = ""
          THEN /\ nnodes' = r.N
               /\ edges' = r.E
               /\ periodicity_vectors' = NoVectors
               /\ from_centered' = FALSE
               /\ twin' = NoTwin
          ELSE UNCHANGED <<nnodes, edges, periodicity_vectors, from_centered, twin>>

\* get_delta(node1, node2, edge_data) on two nodes and one edge of the graph
GetDelta ==
    \E node1 \in 1..nnodes, node2 \in 1..nnodes, i \in 1..Len(edges) :
        /\ last' = [Idle EXCEPT !.op = "get_delta",
                                !.arg = [node1 |-> node1, node2 |-> node2, edge_data |-> edges[i]],
                                !.ret = get_delta(node1, node2, edges[i])]
        /\ UNCHANGED <<nnodes, edges, periodicity_vectors, from_centered, twin>>

\* the 2 by 2 grid: nodes 1, 2 on the lower row and 3, 4 on the upper one
GridNodes == 2 * 2

\* its edges: inside the cell along x and along y, then the wrap edges that
\* leave the cell along x and along y
GridEdges ==
    {[a |-> 1, b |-> 2, start |-> 1, end |-> 2, delta |-> Zero],
     [a |-> 3, b |-> 4, start |-> 3, end |-> 4, delta |-> Zero],
     [a |-> 1, b |-> 3, start |-> 1, end |-> 3, delta |-> Zero],
     [a |-> 2, b |-> 4, start |-> 2, end |-> 4, delta |-> Zero],
     [a |-> 1, b |-> 2, start |-> 2, end |-> 1, delta |-> <<1, 0, 0>>],
     [a |-> 3, b |-> 4, start |-> 4, end |-> 3, delta |-> <<1, 0, 0>>],
     [a |-> 1, b |-> 3, start |-> 3, end |-> 1, delta |-> <<0, 1, 0>>],
     [a |-> 2, b |-> 4, start |-> 4, end |-> 2, delta |-> <<0, 1, 0>>]}

HasGridEdge(E, g) ==
    \E i \in 1..Len(E) : E[i].start = g.start /\ E[i].end = g.end /\ E[i].delta = g.delta

\* ConnectedComponent(graph=g) for a graph of the four grid nodes
InitGrid ==
    /\ nnodes = GridNodes
    /\ edges = <<>>
    /\ periodicity_vectors = NoVectors
    /\ from_centered = FALSE
    /\ last = Idle
    /\ twin = NoTwin

\* the caller adds one of the grid's edges not added yet
AddGridEdge ==
    \E g \in GridEdges :
        /\ ~HasGridEdge(edges, g)
        /\ edges' = add_edge(edges, g.a, g.b, g.start, g.end, g.delta)
        /\ twin' = IF twin.same_graph THEN [twin EXCEPT !.edges = edges'] ELSE twin
        /\ from_centered' = FALSE
        /\ last' = [Idle EXCEPT !.op = "add_edge"]
        /\ UNCHANGED <<nnodes, periodicity_vectors>>

\* ------------------------------------------ elastic centering, step by step
\* elastic_centered_graph up to its level loop: the working copy, the tree and
\* the first level; last.ret holds the locals of the call in progress
CenteringBegin ==
    /\ last.op # "centering"
    /\ last' = [Idle EXCEPT !.op = "centering",
                            !.ret = [g |-> edges,
                                     tree |-> bfs_tree(edges, nnodes, 1),
                                     current_nodes |-> <<1>>,
                                     nodes_traversed |-> <<1>>,
                                     left_loop |-> FALSE]]
    /\ UNCHANGED <<nnodes, edges, periodicity_vectors, from_centered, twin>>

\* variant: new_current_nodes is not emptied at the start of a level
CenteringLevel_KeepLevel ==
    /\ last.op = "centering"
    /\ ~last.ret.left_loop
    /\ LET loc == last.ret
           after == NodeLoop([raised |-> "", g |-> loc.g], loc.tree, loc.current_nodes)
           new_current_nodes ==
               loc.current_nodes \o
               Flatten([i \in 1..Len(loc.current_nodes) |-> loc.tree[loc.current_nodes[i]]])
       IN last' = IF after.raised # ""
                  THEN [Idle EXCEPT !.op = "elastic_centered_graph", !.raised = after.raised]
                  ELSE [last EXCEPT !.ret =
                           [loc EXCEPT !.g = after.g,
                                       !.current_nodes = new_current_nodes,
                                       !.nodes_traversed = @ \o new_current_nodes,
                                       !.left_loop = (new_current_nodes = <<>>)]]
    /\ UNCHANGED <<nnodes, edges, periodicity_vectors, from_centered, twin>>

\* one pass of "while True": the nodes of the level, each with its tree
\* neighbours; an exception ends the call, an empty next level ends the loop
CenteringLevel ==
    /\ last.op = "centering"
    /\ ~last.ret.left_loop
    /\ LET loc == last.ret
           after == NodeLoop([raised |-> "", g |-> loc.g], loc.tree, loc.current_nodes)
           new_current_nodes ==
               Flatten([i \in 1..Len(loc.current_nodes) |-> loc.tree[loc.current_nodes[i]]])
       IN last' = IF after.raised # ""
                  THEN [Idle EXCEPT !.op = "elastic_centered_graph", !.raised = after.raised]
                  ELSE [last EXCEPT !.ret =
                           [loc EXCEPT !.g = after.g,
                                       !.current_nodes = new_current_nodes,
                                       !.nodes_traversed = @ \o new_current_nodes,
                                       !.left_loop = (new_current_nodes = <<>>)]]
    /\ UNCHANGED <<nnodes, edges, periodicity_vectors, from_centered, twin>>

\* after the loop: the connectivity check, then the return
CenteringEnd ==
    /\ last.op = "centering"
    /\ last.ret.left_loop
    /\ last' = IF ~is_connected(ZeroDeltaEdges(last.ret.g), nnodes)
               THEN [Idle EXCEPT !.op = "elastic_centered_graph", !.raised = "RuntimeError"]
               ELSE [Idle EXCEPT !.op = "elastic_centered_graph", !.ret = last.ret.g]
    /\ UNCHANGED <<nnodes, edges, periodicity_vectors, from_centered, twin>>

\* a component on a graph of at most MaxNodesSmall nodes
InitSmall ==
    /\ nnodes \in 1..MaxNodesSmall
    /\ edges = <<>>
    /\ periodicity_vectors = NoVectors
    /\ from_centered = FALSE
    /\ last = Idle
    /\ twin = NoTwin

Next ==
    \/ /\ last.op # "centering"
       /\ \/ AddEdge
          \/ ComputePeriodicity
          \/ Read
          \/ MakeSupergraph
          \/ ElasticCenteredGraph
          \/ FromCentered
          \/ BuildTwin
          \/ TwinAddEdge
          \/ TwinComputePeriodicity
          \/ Construct
          \/ FromDict
          \/ GetDelta
          \/ CenteringBegin
    \/ CenteringLevel
    \/ CenteringEnd

Spec == Init /\ [][Next]_vars

\* compute_periodicity called with one of the two names it knows
ComputeKnown == ComputePeriodicity /\ last'.arg \in Algorithms

\* a graph is built, then its periodicity is computed by either algorithm
NextPeriodicity ==
    \/ (periodicity_vectors.isNone /\ AddEdge)
    \/ ComputeKnown

SpecPeriodicity == Init /\ [][NextPeriodicity]_vars

\* the cache: reads, explicit computations, and a graph that changes at any time
NextCache == AddEdge \/ ComputePeriodicity \/ Read

SpecCache == InitSmall /\ [][NextCache]_vars

\* a graph is built, its periodicity computed, and supergraphs are made
NextSupergraph ==
    \/ (periodicity_vectors.isNone /\ AddEdge)
    \/ ComputeKnown
    \/ MakeSupergraph

SpecSupergraph == InitSmall /\ [][NextSupergraph]_vars

\* a graph is built and centered, and the centered graph centered again
NextCentering == AddEdge \/ ElasticCenteredGraph \/ FromCentered

SpecCentering == Init /\ [][NextCentering]_vars

\* two components on one graph object, each computing its own periodicity
NextOwnership ==
    \/ (~twin.built /\ AddEdge)
    \/ ComputeKnown
    \/ BuildTwin
    \/ TwinAddEdge
    \/ TwinComputePeriodicity

SpecOwnership == InitSmall /\ [][NextOwnership]_vars

\* components are constructed from environments and links, and rebuilt from
\* their dict form
NextConstruct == Construct \/ FromDict

SpecConstruct == InitSmall /\ [][NextConstruct]_vars

\* a graph is built and the deltas of its edges are read between its nodes
NextDelta == AddEdge \/ GetDelta

SpecDelta == InitSmall /\ [][NextDelta]_vars

\* the grid is built edge by edge, in any order, and its periodicity computed
NextGrid ==
    \/ (periodicity_vectors.isNone /\ AddGridEdge)
    \/ ComputeKnown

SpecGrid == InitGrid /\ [][NextGrid]_vars

\* a graph is built, and the three computations are called on the component in
\* any order
NextFrame ==
    \/ (periodicity_vectors.isNone /\ AddEdge)
    \/ ComputeKnown
    \/ MakeSupergraph
    \/ ElasticCenteredGraph

SpecFrame == InitSmall /\ [][NextFrame]_vars

\* a graph is built and centered one level at a time; the call is synchronous:
\* nothing else happens while it runs, and it runs on until it ends
NextCenteringSteps ==
    \/ (last.op # "centering" /\ Len(edges) < MaxEdgesSteps /\ AddEdge)
    \/ CenteringBegin
    \/ CenteringLevel
    \/ CenteringEnd

SpecCenteringSteps ==
    /\ Init
    /\ [][NextCenteringSteps]_vars
    /\ WF_vars(CenteringLevel)
    /\ WF_vars(CenteringEnd)

\* ------------------------------------------------ reference notions
\* the graph as a whole is connected: every split of the nodes is crossed
IsConnectedBy(E, N) ==
    \A S \in SUBSET (1..N) :
        (S # {} /\ S # 1..N) => \E i \in 1..Len(E) : (E[i].u \in S) # (E[i].v \in S)

\* the rank over the rationals of a finite set of integer 3-vectors
RankOf(S) ==
    IF \E a \in S, b \in S, c \in S : Det(a, b, c) # 0 THEN 3
    ELSE IF \E a \in S, b \in S : Cross(a, b) # Zero THEN 2
    ELSE IF \E a \in S : a # Zero THEN 1
    ELSE 0

\* a cell image for every node, fixed along a spanning tree grown from node 1
RECURSIVE Potentials(_, _, _)
Potentials(E, phi, known) ==
    LET cand == {i \in 1..Len(E) : (E[i].start \in known) # (E[i].end \in known)}
    IN IF cand = {} THEN phi
       ELSE LET e == E[CHOOSE i \in cand : TRUE]
            IN IF e.start \in known
               THEN Potentials(E, [phi EXCEPT ![e.end] = VAdd(phi[e.start], e.delta)],
                               known \cup {e.end})
               ELSE Potentials(E, [phi EXCEPT ![e.start] = VSub(phi[e.end], e.delta)],
                               known \cup {e.start})

\* the net deltas of the fundamental cycles; on a connected graph they span
\* the cumulative oriented deltas of all closed walks
ClosedWalkDeltas(E, N) ==
    LET phi == Potentials(E, [n \in 1..N |-> Zero], {1})
    IN {VSub(VAdd(phi[E[i].start], E[i].delta), phi[E[i].end]) : i \in 1..Len(E)}

OtherAlgorithm(a) == IF a = "all_simple_paths" THEN "cycle_basis" ELSE "all_simple_paths"

JustComputed == last.op = "compute_periodicity" /\ last.raised = ""

\* ------------------------------------------------------------------ claims
\* C1: on every valid connected graph, the all-simple-paths and the cycle-basis
\* algorithm end with the same number of periodicity vectors.
C1_AlgorithmsAgree ==
    (JustComputed /\ IsConnectedBy(edges, nnodes)) =>
        Len(periodicity_vectors.v) = Len(compute_periodicity(edges, nnodes, OtherAlgorithm(last.arg)).v)

\* C2: on every valid connected graph, the number of vectors the
\* all-simple-paths algorithm computes is the rank of the cumulative deltas of
\* all closed walks.
C2_AllSimplePathsRank ==
    (JustComputed /\ last.arg = "all_simple_paths" /\ IsConnectedBy(edges, nnodes)) =>
        Len(periodicity_vectors.v) = RankOf(ClosedWalkDeltas(edges, nnodes))

\* C3: the cached periodicity vectors are 0 to 3 nonzero integer 3-vectors,
\* linearly independent over the rationals.
C3_VectorsIndependent ==
    (~periodicity_vectors.isNone) =>
        /\ Len(periodicity_vectors.v) <= 3
        /\ \A i \in 1..Len(periodicity_vectors.v) : periodicity_vectors.v[i] # Zero
        /\ RankOf(Range(periodicity_vectors.v)) = Len(periodicity_vectors.v)

C3_Witness ==
    /\ JustComputed
    /\ last.arg = "all_simple_paths"
    /\ Len(EdgesBetween(edges, 1, 1)) >= 2
    /\ Len(periodicity_vectors.v) = 1

IsCentering == last.op = "elastic_centered_graph"

ZeroOnly(E) == SelectSeq(E, LAMBDA e : e.delta = <<0, 0, 0>>)

\* C4: whenever elastic_centered_graph returns a graph, the edges of that graph
\* whose delta is (0,0,0) connect all nodes of the original graph.
C4_ReturnedGraphIsCentered ==
    (IsCentering /\ last.raised = "") =>
        /\ Len(last.ret) = Len(edges)
        /\ IsConnectedBy(ZeroOnly(last.ret), nnodes)

C4_Witness ==
    /\ IsCentering
    /\ last.raised = ""
    /\ nnodes = 3
    /\ last.ret # edges

\* C5: a read computes the periodicity only when the cache is empty; a read
\* on a filled cache leaves it as it is and answers from it, and a filled
\* cache changes on an explicit compute_periodicity call only.
C5_CacheComputedOnce ==
    [][/\ (last'.op \in Properties) =>
             IF periodicity_vectors.isNone
             THEN last'.ran /\ ~periodicity_vectors'.isNone
             ELSE /\ ~last'.ran
                  /\ periodicity_vectors' = periodicity_vectors
                  /\ last'.ret = PropertyValue(last'.op, periodicity_vectors.v)
       /\ (~periodicity_vectors.isNone /\ periodicity_vectors' # periodicity_vectors)
             => last'.op = "compute_periodicity"]_vars

\* a read answered from a cache that the graph has outgrown
C5_Witness ==
    /\ last.op \in Properties
    /\ ~last.ran
    /\ Len(periodicity_vectors.v) #
           Len(compute_periodicity_all_simple_paths_algorithm(edges, nnodes))

IsSupergraph == last.op = "make_supergraph" /\ last.raised = ""

\* the self-loops whose delta is the first periodicity vector or its opposite
ConnectingSelfLoops(n) ==
    {i \in 1..Len(edges) :
        /\ edges[i].u = n /\ edges[i].v = n
        /\ \/ edges[i].delta = periodicity_vectors.v[1]
           \/ edges[i].delta = VNeg(periodicity_vectors.v[1])}

\* the images lost when the two copies of a self-loop fall on one node pair
Merged(mult, n) ==
    IF mult = 2 /\ edges # <<>> THEN Cardinality(ConnectingSelfLoops(n)) ELSE 0

RECURSIVE SumOver(_, _)
SumOver(f, S) ==
    IF S = {} THEN 0
    ELSE LET x == CHOOSE y \in S : TRUE IN f[x] + SumOver(f, S \ {x})

\* C6: make_supergraph with a single-axis multiplicity m on a graph of N nodes
\* returns a graph with exactly m * N nodes.
C6_SupergraphNodeCount ==
    IsSupergraph => Cardinality(last.ret.nodes) = last.arg.val[1] * nnodes

Collapsed(G, N, a, b) ==
    Cardinality({x \in G.edges :
        \/ (x.a % N = a /\ x.b % N = b)
        \/ (x.a % N = b /\ x.b % N = a)})

Original(a, b) ==
    Cardinality({i \in 1..Len(edges) : edges[i].u - 1 = a /\ edges[i].v - 1 = b})

C9_CenteringIdempotent ==
    (IsCentering /\ from_centered) => (last.raised = "" /\ last.ret = edges)

\* C10 (as claimed): centering a component whose zero-delta subgraph is
\* disconnected raises the structural-failure error.
C10_ZeroDisconnectedRaises ==
    (IsCentering /\ ~IsConnectedBy(ZeroOnly(edges), nnodes)) => last.raised = "RuntimeError"

\* no two parallel edges carry the same delta in the same direction
NoRepeatedParallel(E) ==
    \A i \in 1..Len(E), j \in 1..Len(E) :
        (i < j /\ E[i].u = E[j].u /\ E[i].v = E[j].v) =>
            (IF E[i].start = E[j].start THEN E[i].delta ELSE VNeg(E[i].delta)) # E[j].delta

\* C10 (amended): centering a component whose graph is disconnected with all
\* its edges counted never returns a graph; it raises the structural-failure
\* error, unless two parallel edges with the same oriented delta abort the
\* traversal first.
C10_DisconnectedGraphRaises ==
    (IsCentering /\ ~IsConnectedBy(edges, nnodes)) =>
        /\ last.raised \in {"RuntimeError", "ValueError"}
        /\ NoRepeatedParallel(edges) => last.raised = "RuntimeError"

C10_Witness ==
    /\ IsCentering
    /\ ~IsConnectedBy(edges, nnodes)
    /\ last.raised = "RuntimeError"
    /\ \E i \in 1..Len(edges) : edges[i].u # edges[i].v /\ edges[i].delta # Zero

\* C11: a component owns its graph: an edge added through another component
\* built from the same graph object leaves this component's graph as it was,
\* and a computation on the other component leaves this component's cache.
C11_OwnGraphAndCache ==
    [][/\ (last'.op = "twin.add_edge" => edges' = edges)
       /\ (last'.op = "twin.compute_periodicity" =>
               periodicity_vectors' = periodicity_vectors)]_vars


\* C12: from_dict(c.as_dict()) succeeds and gives an empty component: no nodes,
\* no edges, no periodicity computed.
C12_FromDictGivesEmpty ==
    last.op = "from_dict" =>
        /\ last.raised = ""
        /\ nnodes = 0
        /\ edges = <<>>
        /\ periodicity_vectors.isNone

\* a link of the last constructor call names a node that is not in the list
NamesMissingNode(arg) ==
    \E i \in 1..Len(arg.links) :
        arg.links[i][1] \notin 1..arg.environments \/ arg.links[i][2] \notin 1..arg.environments

\* C20: constructing from environments and links raises ChemenvError when a
\* link names a node that is not in the node list, and then no component is
\* produced; when every link names listed nodes the component is built with
\* one edge for each link.
C20_MissingNodeIsFatal ==
    [][last'.op = "ConnectedComponent" =>
          IF NamesMissingNode(last'.arg)
          THEN /\ last'.raised = "ChemenvError"
               /\ ~last'.ran
               /\ UNCHANGED <<nnodes, edges, periodicity_vectors>>
          ELSE /\ last'.raised = ""
               /\ nnodes' = last'.arg.environments
               /\ Len(edges') = Len(last'.arg.links)
               /\ periodicity_vectors'.isNone]_vars

\* a constructor call that failed on its second link, the first being sound
C20_Witness ==
    /\ last.op = "ConnectedComponent"
    /\ last.raised = "ChemenvError"
    /\ Len(last.arg.links) = 2
    /\ ~NamesMissingNode([last.arg EXCEPT !.links = <<last.arg.links[1]>>])


\* C13: get_delta returns the edge's delta for (start, end), its negation for
\* (end, start), and raises for any other pair of nodes; on an edge with
\* start # end the two orders give opposite vectors.
C13_GetDeltaOriented ==
    last.op = "get_delta" =>
        LET n1 == last.arg.node1
            n2 == last.arg.node2
            e  == last.arg.edge_data
        IN /\ IF n1 = e.start /\ n2 = e.end THEN last.ret = e.delta
              ELSE IF n1 = e.end /\ n2 = e.start
                   THEN last.ret # ValueError /\ VAdd(last.ret, e.delta) = Zero
                   ELSE last.ret = ValueError
           /\ (e.start # e.end /\ last.ret # ValueError) =>
                  /\ get_delta(n2, n1, e) # ValueError
                  /\ VAdd(last.ret, get_delta(n2, n1, e)) = Zero

\* get_delta read an edge of nonzero delta against its direction
C13_Witness ==
    /\ last.op = "get_delta"
    /\ last.arg.edge_data.delta # Zero
    /\ last.arg.node1 = last.arg.edge_data.end
    /\ last.arg.node2 = last.arg.edge_data.start
    /\ last.arg.node1 # last.arg.node2


\* the (node, tree neighbour) pairs of the traversal, in the order they are tested
RECURSIVE TreePairs(_, _)
TreePairs(tree, current_nodes) ==
    IF current_nodes = <<>> THEN <<>>
    ELSE Flatten([i \in 1..Len(current_nodes) |->
                     [j \in 1..Len(tree[current_nodes[i]]) |->
                         <<current_nodes[i], tree[current_nodes[i]][j]>>]])
         \o TreePairs(tree, Flatten([i \in 1..Len(current_nodes) |-> tree[current_nodes[i]]]))

\* the traversal after its first k pairs
RECURSIVE AfterPairs(_, _, _)
AfterPairs(E, pairs, k) ==
    IF k = 0 THEN [raised |-> "", g |-> E]
    ELSE LET prev == AfterPairs(E, pairs, k - 1)
         IN IF prev.raised # "" THEN prev
            ELSE TestNeighbor(prev, pairs[k][1], pairs[k][2])

\* the edges joining the k-th pair when it is tested, each with its delta
\* seen from the node; <<>> if the traversal stopped before
FoundDeltas(E, N, k) ==
    LET pairs == TreePairs(bfs_tree(E, N, 1), <<1>>)
        st == AfterPairs(E, pairs, k - 1)
        between == EdgesBetween(st.g, pairs[k][1], pairs[k][2])
    IN IF st.raised # "" THEN <<>>
       ELSE [i \in 1..Len(between) |-> ThisDelta(between[i], pairs[k][1])]

NumPairs(E, N) == Len(TreePairs(bfs_tree(E, N, 1), <<1>>))

Centered == last.op = "elastic_centered_graph"

\* C14: when centering finds more than one zero-delta edge between a node it
\* treats and one of its tree neighbours, it raises and returns no graph.
C14_SeveralZeroDeltasAbort ==
    (Centered /\ \E k \in 1..NumPairs(edges, nnodes) :
                    LET dd == FoundDeltas(edges, nnodes, k)
                    IN Cardinality({i \in 1..Len(dd) : dd[i] = Zero}) > 1) =>
        /\ last.raised = "ValueError"
        /\ last.ret = <<>>

\* two zero-delta edges were found between a pair whose edges an earlier
\* correction had shifted
C14_Witness ==
    /\ Centered
    /\ \E k \in 1..NumPairs(edges, nnodes) :
           LET dd == FoundDeltas(edges, nnodes, k)
               pairs == TreePairs(bfs_tree(edges, nnodes, 1), <<1>>)
           IN /\ Cardinality({i \in 1..Len(dd) : dd[i] = Zero}) > 1
              /\ AfterPairs(edges, pairs, k - 1).g # edges

\* C15: when centering finds no zero-delta edge but more than one non-zero
\* delta between a node it treats and one of its tree neighbours, it aborts.
C15_SeveralNonZeroDeltasAbort ==
    (Centered /\ \E k \in 1..NumPairs(edges, nnodes) :
                    LET dd == FoundDeltas(edges, nnodes, k)
                    IN /\ \A i \in 1..Len(dd) : dd[i] # Zero
                       /\ Cardinality(Range(dd)) > 1) =>
        last.raised # ""


\* the component is one node carrying one self-loop of nonzero delta
SingleSelfLoop ==
    /\ nnodes = 1
    /\ Len(edges) = 1
    /\ edges[1].delta # Zero

\* C16: for one node with one self-loop of nonzero delta d, either algorithm
\* ends with exactly one periodicity vector, d or -d.
C16_SelfLoopIsOneDimensional ==
    (JustComputed /\ SingleSelfLoop) =>
        \/ periodicity_vectors.v = <<edges[1].delta>>
        \/ periodicity_vectors.v = <<VNeg(edges[1].delta)>>

\* the cycle-basis algorithm has run on a single node with its self-loop
C16_Witness ==
    /\ JustComputed
    /\ SingleSelfLoop
    /\ last.arg = "cycle_basis"
    /\ Len(periodicity_vectors.v) = 1

GridComplete == nnodes = GridNodes /\ \A g \in GridEdges : HasGridEdge(edges, g)

\* C17: on the complete 2 by 2 grid with its wrap edges, either algorithm ends
\* with exactly two independent periodicity vectors.
C17_GridIsTwoDimensional ==
    (JustComputed /\ GridComplete) =>
        /\ Len(periodicity_vectors.v) = 2
        /\ Cross(periodicity_vectors.v[1], periodicity_vectors.v[2]) # Zero

\* the all-simple-paths algorithm has run on the complete grid
C17_Witness ==
    /\ JustComputed
    /\ GridComplete
    /\ last.arg = "all_simple_paths"
    /\ Len(periodicity_vectors.v) = 2


\* C18: make_supergraph raises NotImplementedError and returns no graph when
\* the multiplicity is a sequence of 2 or 3 elements, and never when it is an
\* integer or a sequence of one element.
C18_MultiAxisNotImplemented ==
    last.op = "make_supergraph" =>
        /\ (~last.arg.isint /\ Len(last.arg.val) \in {2, 3}) =>
               (last.raised = "NotImplementedError" /\ last.ret = <<>>)
        /\ (last.arg.isint \/ Len(last.arg.val) = 1) => last.raised # "NotImplementedError"

\* a supergraph along two axes was asked of a periodic component
C18_Witness ==
    /\ last.op = "make_supergraph"
    /\ ~last.arg.isint
    /\ Len(last.arg.val) = 2
    /\ last.raised = "NotImplementedError"
    /\ edges # <<>>
    /\ ~periodicity_vectors.isNone
    /\ periodicity_vectors.v # <<>>

\* C19: compute_periodicity with a name other than 'all_simple_paths' and
\* 'cycle_basis' raises ValueError, runs no algorithm and leaves the cached
\* periodicity vectors as they were.
C19_UnknownAlgorithmRaises ==
    [][(last'.op = "compute_periodicity" /\ last'.arg \notin Algorithms) =>
          /\ last'.raised = "ValueError"
          /\ ~last'.ran
          /\ periodicity_vectors' = periodicity_vectors
          /\ edges' = edges]_vars

\* an unknown name was given to a component whose cache was already filled
C19_Witness ==
    /\ last.op = "compute_periodicity"
    /\ last.arg \in UnknownAlgorithms
    /\ last.raised = "ValueError"
    /\ ~periodicity_vectors.isNone
    /\ periodicity_vectors.v # <<>>


\* the last operation was a read of one of the properties
IsRead == last.op \in Properties

DimensionLabels == <<"0D", "1D", "2D", "3D">>

\* C21: with n the number of cached periodicity vectors, a read answers
\* is_kd = (k = n), so exactly one of is_0d .. is_3d is true; is_periodic =
\* (n > 0); and periodicity = '<n>D'.
C21_PropertiesFollowCount ==
    IsRead =>
        LET n == Len(periodicity_vectors.v)
            value == [p \in Properties |-> PropertyValue(p, periodicity_vectors.v)]
        IN /\ ~periodicity_vectors.isNone
           /\ last.ret = value[last.op]
           /\ n \in 0..3
           /\ value["is_0d"] = (n = 0)
           /\ value["is_1d"] = (n = 1)
           /\ value["is_2d"] = (n = 2)
           /\ value["is_3d"] = (n = 3)
           /\ Cardinality({p \in {"is_0d", "is_1d", "is_2d", "is_3d"} : value[p]}) = 1
           /\ value["is_periodic"] = (n > 0)
           /\ value["periodicity"] = DimensionLabels[n + 1]

\* the label of a two-dimensional component was read
C21_Witness ==
    /\ last.op = "periodicity"
    /\ Len(periodicity_vectors.v) = 2
    /\ last.ret = "2D"

\* the independent vectors the all-simple-paths algorithm finds from node n
PerNode(n) == TestNodeVectors(edges, nnodes, n)

\* the nodes it tests: all of them, or those up to the first that yields 3
TestedNodes ==
    LET full == {n \in 1..nnodes : Len(PerNode(n)) = 3}
    IN IF full = {} THEN 1..nnodes
       ELSE 1..(CHOOSE n \in full : \A m \in full : n <= m)

ByAllSimplePaths == JustComputed /\ last.arg = "all_simple_paths"

\* C22: the all-simple-paths algorithm ends with the vectors of one tested
\* node, the first in graph order whose list is of the largest size; the nodes
\* after the first one that yields 3 vectors are not tested, and the lists of
\* different nodes are never combined.
C22_FirstLargestPerNodeSet ==
    ByAllSimplePaths =>
        LET best == CHOOSE k \in 0..3 :
                        /\ \E n \in TestedNodes : Len(PerNode(n)) = k
                        /\ \A n \in TestedNodes : Len(PerNode(n)) <= k
            first == CHOOSE n \in TestedNodes :
                         /\ Len(PerNode(n)) = best
                         /\ \A m \in TestedNodes : Len(PerNode(m)) = best => n <= m
        IN /\ periodicity_vectors.v = PerNode(first)
           /\ \A n \in 1..nnodes : Len(PerNode(n)) <= 3

\* two tested nodes yield different lists of the same largest size
C22_Witness ==
    /\ ByAllSimplePaths
    /\ periodicity_vectors.v # <<>>
    /\ \E n \in TestedNodes, m \in TestedNodes :
          /\ n < m
          /\ Len(PerNode(n)) = Len(periodicity_vectors.v)
          /\ Len(PerNode(m)) = Len(periodicity_vectors.v)
          /\ PerNode(n) # PerNode(m)

\* a ring: at least 3 nodes, as many edges as nodes, no self-loop, no parallel
\* edges, two edges at every node, all in one piece
IsRing(E, N) ==
    /\ N >= 3
    /\ Len(E) = N
    /\ \A i \in 1..Len(E) : E[i].u # E[i].v /\ E[i].key = 0
    /\ \A n \in 1..N : Cardinality({i \in 1..Len(E) : E[i].u = n \/ E[i].v = n}) = 2
    /\ IsConnectedBy(E, N)

\* the nonzero net deltas of the ring's cycle, in one direction
RingDeltas(E, N) == {d \in ClosedWalkDeltas(E, N) : d # Zero}

\* C23: on a ring of N >= 3 nodes whose cycle has a nonzero net delta d, the
\* all-simple-paths algorithm (cutoff = N) ends with exactly one vector, d or -d.
C23_RingIsOneDimensional ==
    (ByAllSimplePaths /\ IsRing(edges, nnodes) /\ RingDeltas(edges, nnodes) # {}) =>
        /\ Len(periodicity_vectors.v) = 1
        /\ \E d \in RingDeltas(edges, nnodes) :
              periodicity_vectors.v[1] = d \/ periodicity_vectors.v[1] = VNeg(d)

\* the algorithm has run on a ring whose net delta adds up over several edges
C23_Witness ==
    /\ ByAllSimplePaths
    /\ IsRing(edges, nnodes)
    /\ Len(periodicity_vectors.v) = 1
    /\ \A i \in 1..Len(edges) : edges[i].delta # periodicity_vectors.v[1]
                                 /\ edges[i].delta # VNeg(periodicity_vectors.v[1])

ByCycleBasis == JustComputed /\ last.arg = "cycle_basis"

\* C24: on every connected graph, the cycle-basis algorithm ends, after the
\* pass over the basis cycles and the pass over the parallel edges, with as
\* many vectors as the rank of the cumulative deltas of the closed walks of the
\* multigraph, self-loops and pairs of parallel edges included.
C24_CycleBasisRank ==
    (ByCycleBasis /\ IsConnectedBy(edges, nnodes)) =>
        Len(periodicity_vectors.v) = RankOf(ClosedWalkDeltas(edges, nnodes))

\* the pass over the parallel edges has added a vector to those of the basis
\* cycles
C24_Witness ==
    /\ ByCycleBasis
    /\ IsConnectedBy(edges, nnodes)
    /\ nnodes > 1
    /\ Len(periodicity_vectors.v) > Len(CycleLoop(edges, cycle_basis(edges, nnodes), <<>>).v)

\* the edges of the component whose delta is the first periodicity vector p or
\* -p, each as [key, s, t] with s -> t the direction in which its delta is +p
OrientedConnecting ==
    {[key |-> edges[i].key,
      s |-> IF edges[i].delta = periodicity_vectors.v[1] THEN edges[i].start ELSE edges[i].end,
      t |-> IF edges[i].delta = periodicity_vectors.v[1] THEN edges[i].end ELSE edges[i].start] :
        i \in {j \in 1..Len(edges) : \/ edges[j].delta = periodicity_vectors.v[1]
                                     \/ edges[j].delta = VNeg(periodicity_vectors.v[1])}}

\* C25: in the supergraph of m copies every connecting edge is wired as a
\* ring: for each copy i its image joins the copy-i image of its start node to
\* the copy-((i+1) mod m) image of its end node, start and end taken in the
\* direction of +p, with delta (0,0,0) for every copy but the last.
C25_ConnectingEdgesRing ==
    (IsSupergraph /\ edges # <<>>) =>
        LET m == last.arg.val[1]
        IN \A c \in OrientedConnecting, i \in 0..(m - 1) :
               \E x \in last.ret.edges :
                   /\ x.key = c.key
                   /\ {x.a, x.b} = {i * nnodes + (c.s - 1),
                                    ((i + 1) % m) * nnodes + (c.t - 1)}
                   /\ i < m - 1 => x.delta = Zero

\* the pairs of the traversal of the component's graph
Pairs == TreePairs(bfs_tree(edges, nnodes, 1), <<1>>)

\* the steps of the traversal that correct: the traversal has not stopped
\* before, and no edge between the pair has a zero delta
CorrectionSteps ==
    {k \in 1..Len(Pairs) :
        /\ AfterPairs(edges, Pairs, k - 1).raised = ""
        /\ \A i \in 1..Len(FoundDeltas(edges, nnodes, k)) :
              FoundDeltas(edges, nnodes, k)[i] # Zero}

\* C26: a correction step for the neighbour c of node p, with v the delta from
\* p to c of the first edge found between them: that edge ends with delta
\* (0,0,0); every edge at c that is no self-loop gets delta + v where c is its
\* start and delta - v where c is its end; every other edge keeps its delta;
\* no edge is added or removed, and start, end and key stay.
C26_CorrectionStep ==
    Centered =>
        \A k \in CorrectionSteps :
            LET p == Pairs[k][1]
                c == Pairs[k][2]
                before == AfterPairs(edges, Pairs, k - 1).g
                after == AfterPairs(edges, Pairs, k)
                first == EdgesBetween(before, p, c)[1]
                v == IF first.start = p THEN first.delta ELSE VNeg(first.delta)
            IN /\ after.raised = ""
               /\ Len(after.g) = Len(before)
               /\ EdgesBetween(after.g, p, c)[1].delta = Zero
               /\ \A i \in 1..Len(before) :
                     /\ after.g[i] = [before[i] EXCEPT !.delta = after.g[i].delta]
                     /\ after.g[i].delta =
                           IF (before[i].u = c) # (before[i].v = c)
                           THEN IF before[i].start = c
                                THEN VAdd(before[i].delta, v)
                                ELSE VSub(before[i].delta, v)
                           ELSE before[i].delta

\* a correction step on a neighbour that is the start of one of its edges and
\* the end of another, and carries a self-loop of nonzero delta
C26_Witness ==
    /\ Centered
    /\ \E k \in CorrectionSteps :
          LET c == Pairs[k][2]
          IN /\ \E i \in 1..Len(edges) : edges[i].start = c /\ edges[i].end # c
             /\ \E i \in 1..Len(edges) : edges[i].end = c /\ edges[i].start # c
             /\ \E i \in 1..Len(edges) : edges[i].end = c /\ edges[i].start = c
                                          /\ edges[i].delta # Zero

\* for every edge, the net delta of the closed walk that goes along the edge
\* and back through the spanning tree grown from node 1
CycleDeltas(E, N) ==
    LET phi == Potentials(E, [n \in 1..N |-> Zero], {1})
    IN [i \in 1..Len(E) |-> VSub(VAdd(phi[E[i].start], E[i].delta), phi[E[i].end])]

\* elastic_centered_graph has returned a graph
Returned == Centered /\ last.raised = ""

\* C27: the graph elastic centering returns has, on every closed walk, the
\* same cumulative delta as the original graph (walks through parallel edges
\* and self-loops included), hence the same periodicity dimensionality.
C27_ClosedWalksPreserved ==
    Returned =>
        /\ CycleDeltas(last.ret, nnodes) = CycleDeltas(edges, nnodes)
        /\ RankOf(ClosedWalkDeltas(last.ret, nnodes)) = RankOf(ClosedWalkDeltas(edges, nnodes))
        /\ Len(compute_periodicity_cycle_basis(last.ret, nnodes))
               = Len(compute_periodicity_cycle_basis(edges, nnodes))

\* a periodic graph was returned, changed by the corrections, with a self-loop
\* of nonzero delta on a node other than the root
C27_Witness ==
    /\ Returned
    /\ last.ret # edges
    /\ \E i \in 1..Len(edges) : edges[i].u = edges[i].v /\ edges[i].u # 1
                                 /\ edges[i].delta # Zero
    /\ \E k \in CorrectionSteps :
          \E i \in 1..Len(edges) : edges[i].u = Pairs[k][2] /\ edges[i].v = Pairs[k][2]

\* the positions in the edge list of the edges joining the j-th pair
EdgesOfPair(j) ==
    {i \in 1..Len(edges) : {edges[i].u, edges[i].v} = {Pairs[j][1], Pairs[j][2]}}

\* C28: on a connected graph without two parallel edges of the same oriented
\* delta, elastic_centered_graph raises nothing and returns the graph the
\* traversal ends with; once a pair (parent, child) of the tree has been
\* treated it is joined by a zero-delta edge, and that edge stays at zero
\* through every later correction.
C28_ConnectedGraphIsCentered ==
    (Centered /\ IsConnectedBy(edges, nnodes) /\ NoRepeatedParallel(edges)) =>
        /\ last.raised = ""
        /\ last.ret = AfterPairs(edges, Pairs, Len(Pairs)).g
        /\ Len(Pairs) = nnodes - 1
        /\ \A j \in 1..Len(Pairs) :
              /\ \E i \in EdgesOfPair(j) : AfterPairs(edges, Pairs, j).g[i].delta = Zero
              /\ \A k \in j..Len(Pairs), i \in EdgesOfPair(j) :
                    AfterPairs(edges, Pairs, j).g[i].delta = Zero
                        => AfterPairs(edges, Pairs, k).g[i].delta = Zero

\* a chain of three nodes was centered by two corrections, one after the other
C28_Witness ==
    /\ Returned
    /\ IsConnectedBy(edges, nnodes)
    /\ NoRepeatedParallel(edges)
    /\ nnodes = 3
    /\ Len(Pairs) = 2
    /\ Pairs[2][1] = Pairs[1][2]
    /\ CorrectionSteps = {1, 2}

\* C29: compute_periodicity (either algorithm), make_supergraph and
\* elastic_centered_graph leave the component's graph as it was: same nodes,
\* same edges, same start, end and delta on every edge; elastic centering and
\* make_supergraph leave the cached periodicity vectors too.
C29_GraphUnchanged ==
    [][last'.op \in {"compute_periodicity", "make_supergraph", "elastic_centered_graph"} =>
          /\ nnodes' = nnodes
          /\ edges' = edges
          /\ last'.op # "compute_periodicity" => periodicity_vectors' = periodicity_vectors]_vars

\* elastic centering has returned a graph whose deltas differ from those of the
\* component's graph, whose periodicity was computed before
C29_Witness ==
    /\ Returned
    /\ last.ret # edges
    /\ ~periodicity_vectors.isNone
    /\ periodicity_vectors.v # <<>>

\* the nodes at no more than d edges from node 1
RECURSIVE Ball(_, _, _)
Ball(E, N, d) ==
    IF d = 0 THEN {1}
    ELSE LET b == Ball(E, N, d - 1)
         IN b \cup {m \in 1..N : \E n \in b : EdgesBetween(E, n, m) # <<>>}

NoRepeat(s) == \A i, j \in 1..Len(s) : s[i] = s[j] => i = j

\* the call in progress is at the start of the level of distance d
AtLevel(d) ==
    LET loc == last.ret
    IN /\ Range(loc.nodes_traversed) = Ball(edges, nnodes, d)
       /\ Range(loc.current_nodes) =
              Ball(edges, nnodes, d) \ (IF d = 0 THEN {} ELSE Ball(edges, nnodes, d - 1))

\* what holds of the locals of a call in progress
LevelLoopInvariant ==
    LET loc == last.ret
        nt == loc.nodes_traversed
        cn == loc.current_nodes
    IN /\ nt[1] = 1
       /\ NoRepeat(nt)
       /\ \A i \in 2..Len(nt) : \E j \in 1..(i - 1) : nt[i] \in Range(loc.tree[nt[j]])
       /\ Len(cn) <= Len(nt)
       /\ cn = SubSeq(nt, Len(nt) - Len(cn) + 1, Len(nt))
       /\ loc.left_loop <=> cn = <<>>
       /\ ~loc.left_loop => \E d \in 0..(nnodes - 1) : AtLevel(d)
       /\ loc.left_loop => Range(nt) = Reached(edges, nnodes, {1})

\* C30: elastic_centered_graph always terminates. While it runs, no node is
\* taken twice: node 1 first, every other node once, as a child of its tree
\* parent, one level of distance after the other; the loop goes on exactly
\* while the level is not empty, and when it is left every node reachable from
\* node 1 has been taken; the call then returns the graph or raises, with the
\* outcome of the call made in one piece. A call a consistency error aborts
\* ends at that error.
C30_CenteringTerminates ==
    /\ [](last.op = "centering" => LevelLoopInvariant)
    /\ [](Centered =>
            LET r == elastic_centered_graph(edges, nnodes)
            IN last.raised = r.raised /\ last.ret = r.ret)
    /\ (last.op = "centering") ~> Centered

\* the loop has been left after three levels: a node two edges away from node
\* 1 was taken
C30_Witness ==
    /\ last.op = "centering"
    /\ last.ret.left_loop
    /\ Ball(edges, nnodes, 1) # Ball(edges, nnodes, 2)
    /\ Range(last.ret.nodes_traversed) = 1..nnodes
    /\ last.ret.g # edges

=============================================================================
